---- MODULE Spec2Model ----
(***************************************************************************)
(* Model of the Guessify backend (src/app.py): the cookie session, the     *)
(* candidate pool builder, the round selector (seed_track), the title      *)
(* normalizer and the guess judge (check_guess).                           *)
(*                                                                         *)
(* A Python str is a sequence of characters; a character is a one-element  *)
(* string, or a named token for a character outside ASCII ("ndash",        *)
(* "mdash", "cyr").                                                        *)
(***************************************************************************)
EXTENDS Integers, Sequences, FiniteSets, TLC

(* ------------------------------ characters ----------------------------- *)

UpperChars == <<"A","B","C","D","E","F","G","H","I","J","K","L","M",
                "N","O","P","Q","R","S","T","U","V","W","X","Y","Z">>

LowerChars == <<"a","b","c","d","e","f","g","h","i","j","k","l","m",
                "n","o","p","q","r","s","t","u","v","w","x","y","z">>

Range(f) == {f[i] : i \in DOMAIN f}

\* [A-Za-z]
LatinChars == Range(UpperChars) \cup Range(LowerChars)

IsLatin(c) == c \in LatinChars

IsDigit(c) == c \in {"0","1","2","3","4","5","6","7","8","9"}

\* \w of a str pattern: Unicode letters and digits, and the underscore
IsWordChar(c) == IsLatin(c) \/ IsDigit(c) \/ c = "_" \/ c = "cyr"

\* \s of a str pattern, and what str.strip() removes
IsSpace(c) == c \in {" ", "\t", "\n", "\r", "\f"}

\* [-–—]
IsDash(c) == c \in {"-", "ndash", "mdash"}

\* str.lower(), one character
LowerOf == [c \in Range(UpperChars) |->
              LowerChars[CHOOSE i \in DOMAIN UpperChars : UpperChars[i] = c]]

LowerChar(c) == IF c \in DOMAIN LowerOf THEN LowerOf[c] ELSE c

lower(s) == [i \in DOMAIN s |-> LowerChar(s[i])]

\* s[i:] and s[:i] with Python's 0-based offsets
From(s, i) == SubSeq(s, i + 1, Len(s))
Upto(s, i) == SubSeq(s, 1, i)

\* str.strip()
RECURSIVE lstrip(_)
lstrip(s) == IF s # <<>> /\ IsSpace(Head(s)) THEN lstrip(Tail(s)) ELSE s

RECURSIVE rstrip(_)
rstrip(s) ==
    IF s # <<>> /\ IsSpace(s[Len(s)]) THEN rstrip(Upto(s, Len(s) - 1)) ELSE s

strip(s) == rstrip(lstrip(s))

(* --------------------------- has_latin_characters ---------------------- *)

\* A filter that takes any letter or digit for a Latin letter
has_word_characters(text) == \E i \in DOMAIN text : IsWordChar(text[i])

\* re.search(r'[A-Za-z]', text); an empty text gives False
has_latin_characters(text) ==
    IF text = <<>> THEN FALSE
    ELSE \E i \in DOMAIN text : IsLatin(text[i])

(* ------------------------------ normalize_title ------------------------ *)

\* re.sub(open [^close]* close, ' ', s): leftmost spans, left to right
RECURSIVE RemoveSpans(_, _, _)
RemoveSpans(s, open, close) ==
    IF s = <<>> THEN <<>>
    ELSE IF Head(s) = open /\ \E j \in 2..Len(s) : s[j] = close
         THEN LET j == CHOOSE k \in 2..Len(s) :
                          s[k] = close /\ \A m \in 2..(k - 1) : s[m] # close
              IN  <<" ">> \o RemoveSpans(From(s, j), open, close)
         ELSE <<Head(s)>> \o RemoveSpans(Tail(s), open, close)

FeatWords == {<<"f","e","a","t">>, <<"f","t">>,
              <<"f","e","a","t","u","r","i","n","g">>}

\* \b(?:feat|ft|featuring)\b matched at 1-based position i of s: the length
\* of the marker, or 0
FeatMarkerAt(s, i) ==
    IF i > 1 /\ IsWordChar(s[i - 1]) THEN 0
    ELSE LET fits(w) == /\ i + Len(w) - 1 <= Len(s)
                        /\ SubSeq(s, i, i + Len(w) - 1) = w
                        /\ (i + Len(w) <= Len(s) => ~IsWordChar(s[i + Len(w)]))
         IN  IF \E w \in FeatWords : fits(w)
             THEN Len(CHOOSE w \in FeatWords : fits(w))
             ELSE 0

\* [.:]?\s*.*$ from offset p of s (s[p:]): the offset where the match ends,
\* or -1. '.' stops at a line break and '$' holds at the end of the string
\* or before a line break that ends it.
FeatTailEnd(s, p) ==
    LET q    == IF p < Len(s) /\ s[p + 1] \in {".", ":"} THEN p + 1 ELSE p
        rest == lstrip(From(s, q))
        nl   == {k \in DOMAIN rest : rest[k] = "\n"}
    IN  IF nl = {} THEN Len(s)
        ELSE IF nl = {Len(rest)} THEN Len(s) - 1
        ELSE -1

\* re.sub(r'\b(?:feat|ft|featuring)\b[.:]?\s*.*$', ' ', s)
RemoveFeat(s) ==
    LET hit(i) == FeatMarkerAt(s, i) > 0
                  /\ FeatTailEnd(s, i - 1 + FeatMarkerAt(s, i)) >= 0
    IN  IF \E i \in DOMAIN s : hit(i)
        THEN LET i == CHOOSE k \in DOMAIN s :
                          hit(k) /\ \A m \in 1..(k - 1) : ~hit(m)
                 e == FeatTailEnd(s, i - 1 + FeatMarkerAt(s, i))
             IN  Upto(s, i - 1) \o <<" ">> \o From(s, e)
        ELSE s

\* re.split(r'\s[-–—]\s', s)[0]
FirstSegment(s) ==
    LET sep(i) == /\ i + 2 <= Len(s)
                  /\ IsSpace(s[i]) /\ IsDash(s[i + 1]) /\ IsSpace(s[i + 2])
    IN  IF \E i \in DOMAIN s : sep(i)
        THEN LET i == CHOOSE k \in DOMAIN s :
                          sep(k) /\ \A m \in 1..(k - 1) : ~sep(m)
             IN  Upto(s, i - 1)
        ELSE s

\* re.sub(r'[^\w\s]', ' ', s)
RemovePunct(s) ==
    [i \in DOMAIN s |-> IF IsWordChar(s[i]) \/ IsSpace(s[i]) THEN s[i] ELSE " "]

\* re.sub(r'\s+', ' ', s)
RECURSIVE CollapseSpaces(_)
CollapseSpaces(s) ==
    IF s = <<>> THEN <<>>
    ELSE IF IsSpace(Head(s))
         THEN <<" ">> \o CollapseSpaces(lstrip(s))
         ELSE <<Head(s)>> \o CollapseSpaces(Tail(s))

normalize_title(t) ==
    IF t = <<>> THEN <<>>
    ELSE LET s1 == lower(t)
             s2 == RemoveSpans(s1, "(", ")")
             s3 == RemoveSpans(s2, "[", "]")
             s4 == RemoveSpans(s3, "{", "}")
             s5 == RemoveFeat(s4)
             s6 == FirstSegment(s5)
             s7 == RemovePunct(s6)
         IN  strip(CollapseSpaces(s7))

(* ------------------------- catalogue answers --------------------------- *)

\* Python's None where a dict is expected. A dict is a record; an absent or
\* falsy id is the empty string.
None == [none |-> TRUE]

Artist(n) == [name |-> n]

Track(i, n, a, u) == [id |-> i, name |-> n, artists |-> a, uri |-> u]

\* The tracks the catalogue can answer with. TrackA2 is another copy of
\* TrackA's id, TrackB's title normalizes to the empty string, TrackC's title
\* has no Latin letter, TrackD's artist array holds a null and TrackE has no
\* id.
TrackA  == Track("t1", <<"A","b">>, <<Artist("X")>>, "uri:t1")
TrackA2 == Track("t1", <<"A","b"," ","(","x",")">>, <<Artist("X")>>, "uri:t1")
TrackB  == Track("t2", <<"(","a",")">>, <<Artist("X"), Artist("Y")>>, "uri:t2")
TrackC  == Track("t3", <<"cyr","!">>, <<Artist("Y")>>, "uri:t3")
TrackD  == Track("t4", <<"b">>, <<Artist("X"), None>>, "uri:t4")
TrackE  == Track("", <<"c">>, <<Artist("Y")>>, "uri:t5")

Catalogue == {TrackA, TrackA2, TrackB, TrackC, TrackD, TrackE}

\* A catalogue call that raises (the source is unavailable, or the token is
\* rejected with 401)
Raises == [raises |-> TRUE]

\* All sequences over S of length at most n
RECURSIVE SeqsUpTo(_, _)
SeqsUpTo(S, n) ==
    IF n = 0 THEN {<<>>}
    ELSE LET shorter == SeqsUpTo(S, n - 1)
         IN  shorter \cup {Append(q, x) : q \in shorter, x \in S}

\* What sp.current_user_playing_track() can give: an exception, None (204),
\* or a dict whose "item" is None or a track
CurrentAnswers(tracks) ==
    {Raises, None} \cup {[item |-> t] : t \in tracks \cup {None}}

\* What sp.current_user_recently_played() can give: an exception, None, or a
\* dict whose "items" are play-history dicts (or nulls), each with a "track"
RecentAnswers(tracks, n) ==
    {Raises, None}
    \cup {[items |-> q] :
            q \in SeqsUpTo({None} \cup {[track |-> t] : t \in tracks \cup {None}}, n)}

\* What sp.current_user_top_tracks() can give: an exception, None, or a dict
\* whose "items" are tracks (or nulls)
TopAnswers(tracks, n) ==
    {Raises, None} \cup {[items |-> q] : q \in SeqsUpTo(tracks \cup {None}, n)}

(* --------------------- _collect_candidate_tracks ----------------------- *)

\* The dict `candidates` is the set of its values, one per key (track id).
\* t and t.get("id")
HasId(t) == t # None /\ t.id # ""

\* candidates[t["id"]] = t
SetItem(candidates, t) == {c \in candidates : c.id # t.id} \cup {t}

\* A setdefault that overwrites: the later copy of an id replaces the earlier
SetDefaultOverwrites(candidates, t) ==
    {c \in candidates : c.id # t.id} \cup {t}

\* candidates.setdefault(t["id"], t)
SetDefault(candidates, t) ==
    IF \E c \in candidates : c.id = t.id THEN candidates ELSE candidates \cup {t}

\* 1) currently playing: try ... except Exception: pass
AddCurrent(candidates, cur) ==
    IF cur = Raises \/ cur = None THEN candidates
    ELSE IF HasId(cur.item) THEN SetItem(candidates, cur.item)
    ELSE candidates

\* 2) the loop over rp["items"]: `it.get` raises on a None item, and the
\* except clause leaves the loop with what was added so far
RECURSIVE AddRecentItems(_, _)
AddRecentItems(candidates, items) ==
    IF items = <<>> THEN candidates
    ELSE IF Head(items) = None THEN candidates
    ELSE AddRecentItems(IF HasId(Head(items).track)
                        THEN SetDefault(candidates, Head(items).track)
                        ELSE candidates,
                        Tail(items))

\* 2) recently played: rp.get raises on None
AddRecent(candidates, rp) ==
    IF rp = Raises \/ rp = None THEN candidates
    ELSE AddRecentItems(candidates, rp.items)

\* 3) the loop over top["items"]: a None item is skipped
RECURSIVE AddTopItems(_, _)
AddTopItems(candidates, items) ==
    IF items = <<>> THEN candidates
    ELSE AddTopItems(IF HasId(Head(items))
                     THEN SetDefault(candidates, Head(items))
                     ELSE candidates,
                     Tail(items))

\* 3) top tracks
AddTop(candidates, top) ==
    IF top = Raises \/ top = None THEN candidates
    ELSE AddTopItems(candidates, top.items)

\* The list returned, as the set of its members: random.shuffle leaves no
\* order to rely on.
collect_candidate_tracks(src) ==
    AddTop(AddRecent(AddCurrent({}, src.cur), src.recent), src.top)

(* ------------------------------ fuzz.ratio ----------------------------- *)

\* Length of a longest common subsequence
RECURSIVE LCS(_, _)
LCS(a, b) ==
    IF a = <<>> \/ b = <<>> THEN 0
    ELSE IF Head(a) = Head(b) THEN 1 + LCS(Tail(a), Tail(b))
    ELSE LET x == LCS(Tail(a), b)
             y == LCS(a, Tail(b))
         IN  IF x >= y THEN x ELSE y

\* fuzz.ratio(a, b) >= target, on the exact quotient 100 * 2 * LCS / (|a| + |b|);
\* two empty strings score 100
RatioAtLeast(a, b, target) ==
    IF Len(a) + Len(b) = 0 THEN 100 >= target
    ELSE 200 * LCS(a, b) >= target * (Len(a) + Len(b))

\* int(fuzz.ratio(a, b))
RatioInt(a, b) ==
    IF Len(a) + Len(b) = 0 THEN 100
    ELSE (200 * LCS(a, b)) \div (Len(a) + Len(b))

(* ------------------------------- session ------------------------------- *)

\* The Flask session: a dict kept in the client's cookie. A key that is
\* absent reads as its default: token_info FALSE, spotify_user_id "None",
\* played_tracks <<>>, current_track None.
EmptySession ==
    [token_info |-> FALSE, spotify_user_id |-> "None",
     played_tracks |-> <<>>, current_track |-> None]

\* get_spotify(): a client when the session holds a token, else None
get_spotify(sess) == sess.token_info

Response(op, status, json) == [op |-> op, status |-> status, json |-> json]

NoPool == [built |-> FALSE, tracks |-> {}]

(* ------------------------------ seed_track ----------------------------- *)

\* A filter that forgets the played list
NewCandidatesIgnoringPlayed(candidates, played) ==
    {t \in candidates : has_latin_characters(t.name)}

\* filter out tracks without Latin letters and those already played
NewCandidates(candidates, played) ==
    {t \in candidates : t.id \notin Range(played) /\ has_latin_characters(t.name)}

\* [a.get("name") for a in track.get("artists", [])] raises on a null artist
ArtistsRaise(track) == \E i \in DOMAIN track.artists : track.artists[i] = None

ArtistNames(track) == [i \in DOMAIN track.artists |-> track.artists[i].name]

\* A current track stored with its title only lowercased
CurrentTrackLowercased(track) ==
    [id |-> track.id, name |-> track.name,
     match_title |-> lower(track.name),
     artists |-> ArtistNames(track), uri |-> track.uri]

\* session["current_track"] = {...}
CurrentTrackOf(track) ==
    [id |-> track.id, name |-> track.name,
     match_title |-> normalize_title(track.name),
     artists |-> ArtistNames(track), uri |-> track.uri]

\* A pick that leaves the played list as it was
MarkPlayedForgets(played, track_id) == played

\* played.append(track_id); session["played_tracks"] = played
MarkPlayed(played, track_id) == Append(played, track_id)

\* A pick that marks the track played before it builds the current_track dict
PickRaisedAfterMark(sess, track) ==
    [sess EXCEPT !.played_tracks = MarkPlayed(@, track.id)]

\* The session when the artists comprehension raises: the current_track dict
\* is built before it is assigned, and the played list is touched after it
PickRaised(sess, track) == sess

\* The request with `track` drawn by random.choice
SeedPick(sess, track, candidates) ==
    IF ArtistsRaise(track)
    THEN [session |-> PickRaised(sess, track),
          pool |-> [built |-> TRUE, tracks |-> candidates],
          resp |-> Response("seed_track", 500,
                            [error |-> "'NoneType' object has no attribute 'get'"])]
    ELSE [session |-> [sess EXCEPT
                         !.current_track = CurrentTrackOf(track),
                         !.played_tracks = MarkPlayed(sess.played_tracks, track.id)],
          pool |-> [built |-> TRUE, tracks |-> candidates],
          resp |-> Response("seed_track", 200,
                            [id |-> track.id, name |-> track.name,
                             artists |-> ArtistNames(track), uri |-> track.uri,
                             match_title |-> normalize_title(track.name)])]

\* The outcomes of GET /api/seed-track on session `sess` when the catalogue
\* answers `src`: the session to store, the pool built and the response
seed_track(sess, src) ==
    IF ~get_spotify(sess)
    THEN {[session |-> sess, pool |-> NoPool,
           resp |-> Response("seed_track", 200, [needs_auth |-> TRUE])]}
    ELSE LET candidates     == collect_candidate_tracks(src)
             new_candidates == NewCandidates(candidates, sess.played_tracks)
         IN  IF new_candidates = {}
             THEN {[session |-> sess,
                    pool |-> [built |-> TRUE, tracks |-> candidates],
                    resp |-> Response("seed_track", 404, [error |-> "no-more-tracks"])]}
             ELSE {SeedPick(sess, track, candidates) : track \in new_candidates}

(* ------------------------------ check_guess ---------------------------- *)

\* correct_title_raw and correct_match
CorrectTitleRaw(sess, data) ==
    IF sess.current_track # None THEN sess.current_track.name
    ELSE data.correct_title

CorrectMatch(sess, data) ==
    IF sess.current_track # None
    THEN IF sess.current_track.match_title # <<>>
         THEN sess.current_track.match_title
         ELSE normalize_title(sess.current_track.name)
    ELSE normalize_title(data.correct_title)

\* guess_norm, with its fall back to the lowercased guess
GuessNorm(guess_raw) ==
    IF normalize_title(guess_raw) # <<>> THEN normalize_title(guess_raw)
    ELSE lower(guess_raw)

\* target = 93 if len(correct_match) > 4 else 88
LongTarget == 93
ShortTarget == 88
ShortLen == 4
\* A target that takes a 4-character answer for a long one
TargetFromShortLen(correct_match) ==
    IF Len(correct_match) >= ShortLen THEN LongTarget ELSE ShortTarget

Target(correct_match) ==
    IF Len(correct_match) > ShortLen THEN LongTarget ELSE ShortTarget

\* A judging request that would drop the round's answer once judged
JudgedSessionForgetsAnswer(sess) == [sess EXCEPT !.current_track = None]

\* The session after POST /api/check-guess: the handler reads
\* session.get("current_track") and assigns nothing to the session
JudgedSession(sess) == sess

\* The response of POST /api/check-guess; the session is only read
check_guess(sess, data) ==
    LET guess_raw         == strip(data.guess)
        correct_title_raw == CorrectTitleRaw(sess, data)
        correct_match     == CorrectMatch(sess, data)
        guess_norm        == GuessNorm(guess_raw)
    IN  IF guess_raw = <<>> \/ correct_title_raw = <<>>
        THEN Response("check_guess", 400, [error |-> "missing-guess-or-correct-title"])
        ELSE Response("check_guess", 200,
                      [accepted |-> RatioAtLeast(guess_norm, correct_match,
                                                 Target(correct_match)),
                       guess |-> guess_raw,
                       ratio |-> RatioInt(guess_norm, correct_match),
                       correct_title_raw |-> correct_title_raw,
                       correct_normalized |-> correct_match])

(* ------------------------------ user stats ----------------------------- *)

\* The UserStats row of a user, as report_result creates it
NewUserStats(uid) ==
    [spotify_user_id |-> uid, correct_songs |-> 0,
     total_attempts_for_correct |-> 0, songs_played |-> 0]

\* The "user_stats" object of a response; averageAttempts is the quotient
\* total_attempts_for_correct / correct_songs, kept as its two terms
UserStatsJson(us) ==
    [correctSongs |-> us.correct_songs,
     totalAttemptsForCorrect |-> us.total_attempts_for_correct,
     songsPlayed |-> us.songs_played,
     averageAttempts |-> IF us.correct_songs > 0
                         THEN [num |-> us.total_attempts_for_correct,
                               den |-> us.correct_songs]
                         ELSE None]

\* A report that counts a song as played only when it was guessed
ReportedCountsCorrectOnly(us, accepted, attempts) ==
    [us EXCEPT
       !.songs_played = IF accepted THEN @ + 1 ELSE @,
       !.correct_songs = IF accepted THEN @ + 1 ELSE @,
       !.total_attempts_for_correct = IF accepted THEN @ + attempts ELSE @]

\* us.songs_played += 1, and the two other counters when accepted
Reported(us, accepted, attempts) ==
    [us EXCEPT
       !.songs_played = @ + 1,
       !.correct_songs = IF accepted THEN @ + 1 ELSE @,
       !.total_attempts_for_correct = IF accepted THEN @ + attempts ELSE @]

(* -------------------------------- bounds ------------------------------- *)

\* Reports a user makes
MaxReports == 1
\* The attempts a report can carry
MaxAttempts == 1
\* Picks returned in one session while requests overlap
MaxPicks == 2
\* Items a list source answers with, where the pool builder is checked alone
MaxItems == 2

Users == {"u1"}

Requests == {"r1", "r2"}

\* The bodies POST /api/check-guess is sent
GuessInputs ==
    {<<>>, <<" ">>, <<"a","b">>, <<"A","b"," ">>, <<"(","a",")">>, <<"!","!">>}

TitleInputs == {<<>>, <<" "," ">>, <<"a","b">>, <<"!","!">>}

\* What the three catalogue calls answer to one seed-track request
SeedSources ==
    [cur : {Raises, None, [item |-> TrackA], [item |-> TrackC]},
     recent : {Raises, [items |-> <<[track |-> TrackB]>>],
               [items |-> <<[track |-> TrackA2], [track |-> TrackB]>>]},
     top : {Raises, [items |-> <<TrackD>>], [items |-> <<TrackB, TrackE>>],
            [items |-> <<TrackA, TrackC>>]}]

AllRaise == [cur |-> Raises, recent |-> Raises, top |-> Raises]

(* -------------------------------- state -------------------------------- *)

VARIABLES
    session,        \* the session cookie the client holds
    tokenExpired,   \* the catalogue rejects the session's access token
    user_stats,     \* the user_stats table: None, or the row of the one user
    reports,        \* the report-result requests that were counted, in order
    resp,           \* the response to the last request
    before,         \* the session and tokenExpired the last request started from
    pool,           \* the pool the last seed-track request built, if it built one
    returned,       \* ids returned by the successful picks of this session
    inflight,       \* per overlapping request: the session it loaded, or None
    src,            \* pool builder alone: what the three sources answer
    built,          \* pool builder alone: the list returned, or None
    data,           \* judge alone: the body of the check-guess request
    title,          \* normalizer alone: the raw title
    normalized,     \* normalizer alone: normalize_title(title), then of that
    snip            \* play_snippet alone: the request and the handler's position

\* The variables of the parts checked alone, besides the pool builder's
aloneVars == <<data, title, normalized, snip>>

vars == <<session, tokenExpired, user_stats, reports, resp, before, pool, returned,
          inflight, src, built, aloneVars>>

sessionVars == <<session, tokenExpired, user_stats, reports, resp, before, pool, returned,
                 inflight>>

NoResponse == Response("none", 0, None)

Snapshot(sess, expired) == [session |-> sess, tokenExpired |-> expired]

\* No request made yet
InitObserved ==
    /\ tokenExpired = FALSE
    /\ user_stats = None
    /\ reports = <<>>
    /\ resp = NoResponse
    /\ before = Snapshot(EmptySession, FALSE)
    /\ pool = NoPool
    /\ returned = <<>>
    /\ inflight = [r \in Requests |-> None]

InitSession ==
    /\ session = EmptySession
    /\ InitObserved

NoData == [guess |-> <<>>, correct_title |-> <<>>]

\* The parts checked alone, at rest
\* The normalizer alone has not been given a title
NoTitle ==
    /\ title = <<>>
    /\ normalized = <<>>

\* No play-snippet request
NoSnippet == [pc |-> "none"]

InitAlone ==
    /\ data = NoData
    /\ NoTitle
    /\ snip = NoSnippet

Init ==
    /\ InitSession
    /\ src = AllRaise
    /\ built = None
    /\ InitAlone

(* ------------------------------- requests ------------------------------ *)

\* A callback that starts the played list afresh
CallbackSessionResets(sess, uid) ==
    [sess EXCEPT !.token_info = TRUE,
                 !.spotify_user_id = uid,
                 !.played_tracks = <<>>,
                 !.current_track = None]

\* The session after /callback obtained a token: setdefault keeps the
\* played tracks, pop drops the current track
CallbackSession(sess, uid) ==
    [sess EXCEPT !.token_info = TRUE,
                 !.spotify_user_id = uid,
                 !.current_track = None]

\* GET /callback: without a code nothing is touched; with a code the token
\* is stored, and sp.current_user() gives the profile id, or raises and
\* leaves None
Callback ==
    /\ \E code \in BOOLEAN, uid \in Users \cup {"None"} :
         IF ~code
         THEN /\ resp' = Response("callback", 400, [text |-> "Missing code"])
              /\ UNCHANGED <<session, tokenExpired>>
         ELSE /\ session' = CallbackSession(session, uid)
              /\ tokenExpired' = FALSE
              /\ resp' = Response("callback", 302, [location |-> "instructions"])
    /\ before' = Snapshot(session, tokenExpired)
    /\ pool' = NoPool
    /\ UNCHANGED <<user_stats, reports, returned, inflight, src, built, aloneVars>>

\* GET /logout: session.clear()
Logout ==
    /\ session' = EmptySession
    /\ resp' = Response("logout", 302, [location |-> "index"])
    /\ before' = Snapshot(session, tokenExpired)
    /\ pool' = NoPool
    /\ returned' = <<>>
    /\ UNCHANGED <<tokenExpired, user_stats, reports, inflight, src, built, aloneVars>>

\* The access token runs out
TokenExpires ==
    /\ session.token_info
    /\ ~tokenExpired
    /\ tokenExpired' = TRUE
    /\ UNCHANGED <<session, user_stats, reports, resp, before, pool, returned, inflight,
                   src, built, aloneVars>>

\* What the catalogue can answer: nothing but 401s once the token expired
Answers(expired) == IF expired THEN {AllRaise} ELSE SeedSources

Returned(out) ==
    IF out.resp.status = 200 /\ "id" \in DOMAIN out.resp.json
    THEN <<out.resp.json.id>> ELSE <<>>

\* GET /api/seed-track, one request at a time
SeedTrack ==
    /\ \E s \in Answers(tokenExpired) :
         \E out \in seed_track(session, s) :
            /\ session' = out.session
            /\ resp' = out.resp
            /\ pool' = out.pool
            /\ returned' = returned \o Returned(out)
    /\ before' = Snapshot(session, tokenExpired)
    /\ UNCHANGED <<tokenExpired, user_stats, reports, inflight, src, built, aloneVars>>

\* POST /api/check-guess
CheckGuess ==
    /\ \E g \in GuessInputs, c \in TitleInputs :
           resp' = check_guess(session, [guess |-> g, correct_title |-> c])
    /\ session' = JudgedSession(session)
    /\ before' = Snapshot(session, tokenExpired)
    /\ pool' = NoPool
    /\ UNCHANGED <<tokenExpired, user_stats, reports, returned, inflight, src, built, aloneVars>>

\* GET /api/session-played-count
SessionPlayedCount ==
    /\ resp' =
         IF ~session.token_info
         THEN Response("session_played_count", 200, [needs_auth |-> TRUE])
         ELSE Response("session_played_count", 200,
                [session_played |-> Len(session.played_tracks),
                 user_stats |->
                    IF session.spotify_user_id # "None" /\ user_stats # None
                       /\ user_stats.spotify_user_id = session.spotify_user_id
                    THEN UserStatsJson(user_stats) ELSE None])
    /\ before' = Snapshot(session, tokenExpired)
    /\ pool' = NoPool
    /\ UNCHANGED <<session, tokenExpired, user_stats, reports, returned, inflight, src, built, aloneVars>>

\* POST /api/report-result, while fewer than `limit` reports are counted
Report(limit) ==
    /\ \E accepted \in BOOLEAN, attempts \in 0..MaxAttempts :
         IF ~session.token_info
         THEN /\ resp' = Response("report_result", 401, [needs_auth |-> TRUE])
              /\ UNCHANGED <<user_stats, reports>>
         ELSE IF session.spotify_user_id = "None"
         THEN /\ resp' = Response("report_result", 400, [error |-> "user-id-missing"])
              /\ UNCHANGED <<user_stats, reports>>
         ELSE LET us == IF user_stats = None
                        THEN NewUserStats(session.spotify_user_id)
                        ELSE user_stats
              IN  /\ us.songs_played < limit
                  /\ user_stats' = Reported(us, accepted, attempts)
                  /\ reports' = Append(reports, [accepted |-> accepted,
                                                 attempts |-> attempts])
                  /\ resp' = Response("report_result", 200,
                                [ok |-> TRUE,
                                 user_stats |-> UserStatsJson(user_stats')])
    /\ before' = Snapshot(session, tokenExpired)
    /\ pool' = NoPool
    /\ UNCHANGED <<session, tokenExpired, returned, inflight, src, built, aloneVars>>

ReportResult == Report(MaxReports)

Next ==
    \/ Callback
    \/ Logout
    \/ TokenExpires
    \/ SeedTrack
    \/ CheckGuess
    \/ SessionPlayedCount
    \/ ReportResult

\* One request at a time on one session
Spec == Init /\ [][Next]_vars

(* -------------------------- overlapping requests ----------------------- *)

\* The session lives in the client's cookie (the app sets no server-side
\* session interface): a request loads the session its cookie carries, and
\* its response replaces the client's cookie when the handler changed the
\* session.

\* A seed-track request arrives and its session is loaded
SeedBegin(r) ==
    /\ inflight[r] = None
    /\ Len(returned) < MaxPicks
    /\ inflight' = [inflight EXCEPT ![r] = session]
    /\ UNCHANGED <<session, tokenExpired, user_stats, reports, resp, before, pool,
                   returned, src, built, aloneVars>>

\* The handler runs on the loaded session and the response is received
SeedEnd(r) ==
    /\ inflight[r] # None
    /\ \E s \in Answers(tokenExpired) :
         \E out \in seed_track(inflight[r], s) :
            /\ session' = IF out.session # inflight[r] THEN out.session ELSE session
            /\ resp' = out.resp
            /\ pool' = out.pool
            /\ returned' = returned \o Returned(out)
    /\ before' = Snapshot(inflight[r], tokenExpired)
    /\ inflight' = [inflight EXCEPT ![r] = None]
    /\ UNCHANGED <<tokenExpired, user_stats, reports, src, built, aloneVars>>

NextConc ==
    \/ Callback
    \/ \E r \in Requests : SeedBegin(r)
    \/ \E r \in Requests : SeedEnd(r)

\* Seed-track requests of one session that overlap
SpecConc == Init /\ [][NextConc]_vars

(* --------------------------- pool builder alone ------------------------ *)

PoolTracks == {TrackA, TrackA2, TrackB, TrackE}

PoolSources ==
    [cur : CurrentAnswers(PoolTracks),
     recent : RecentAnswers(PoolTracks, MaxItems),
     top : TopAnswers(PoolTracks, MaxItems)]

InitPool ==
    /\ InitSession
    /\ src \in PoolSources
    /\ built = None
    /\ InitAlone

\* _collect_candidate_tracks(sp) on the answers src
Collect ==
    /\ built = None
    /\ built' = [tracks |-> collect_candidate_tracks(src)]
    /\ UNCHANGED <<src, sessionVars, aloneVars>>

NextPool == Collect

SpecPool == InitPool /\ [][NextPool]_vars

(* ------------------------------ judge alone ---------------------------- *)

\* Longest title the judge is given
MaxTitleLen == 8

\* "a", "ab", "abc", ...
Prefix(k) == SubSeq(LowerChars, 1, k)

\* Guesses and titles: those of the requests above, the titles "a", "ab",
\* ... and their misspellings with one letter more
JudgeStrings ==
    GuessInputs \cup TitleInputs
    \cup {Prefix(k) : k \in 1..MaxTitleLen}
    \cup {Append(Prefix(k), "z") : k \in 1..(MaxTitleLen - 1)}

\* The sessions a guess is judged in: none picked yet, or one picked
JudgeSessions ==
    {EmptySession}
    \cup {[EmptySession EXCEPT !.token_info = TRUE,
                               !.played_tracks = <<t.id>>,
                               !.current_track = CurrentTrackOf(t)] :
             t \in {TrackA, TrackA2, TrackB}}

InitJudge ==
    /\ InitObserved
    /\ session \in JudgeSessions
    /\ data \in [guess : JudgeStrings, correct_title : JudgeStrings]
    /\ src = AllRaise
    /\ built = None
    /\ NoTitle
    /\ snip = NoSnippet

\* POST /api/check-guess with the body data
Judge ==
    /\ resp = NoResponse
    /\ resp' = check_guess(session, data)
    /\ UNCHANGED <<session, tokenExpired, user_stats, reports, before, pool, returned,
                   inflight, src, built, aloneVars>>

NextJudge == Judge

SpecJudge == InitJudge /\ [][NextJudge]_vars

(* ---------------------------- normalizer alone ------------------------- *)

MaxParts == 4

\* Pieces of a title: a letter, the characters the rewrites look for and a
\* featuring marker
TitleParts == {<<"A">>, <<" ">>, <<"\n">>, <<"f","t">>, <<"!">>, <<"_">>,
               <<"(">>, <<")">>, <<"-">>}

RECURSIVE Joined(_)
Joined(n) ==
    IF n = 0 THEN {<<>>}
    ELSE Joined(n - 1) \cup {t \o p : t \in Joined(n - 1), p \in TitleParts}

BlindingLightsRaw ==
    <<"B","l","i","n","d","i","n","g"," ","L","i","g","h","t","s"," ","(","f","e","a","t","."," ","S","o","m","e","o","n","e",")"," ","-"," ","R","e","m","a","s","t","e","r","e","d"," ","2","0","2","0">>

SongLiveRaw ==
    <<"S","o","n","g"," ","[","L","i","v","e"," ","a","t"," ","W","e","m","b","l","e","y","]">>

HelloWorldRaw ==
    <<" "," ","H","e","l","l","o","-","-","-","W","o","r","l","d","!","!"," "," ">>

TitleExamples == {BlindingLightsRaw, SongLiveRaw, HelloWorldRaw}

NormInputs == Joined(MaxParts) \cup TitleExamples

InitNorm ==
    /\ InitObserved
    /\ session = EmptySession
    /\ src = AllRaise
    /\ built = None
    /\ data = NoData
    /\ title \in NormInputs
    /\ normalized = <<>>
    /\ snip = NoSnippet

\* s = normalize_title(t)
Normalize ==
    /\ normalized = <<>>
    /\ normalized' = <<normalize_title(title)>>
    /\ UNCHANGED <<sessionVars, src, built, data, title, snip>>

\* normalize_title applied to its own result
NormalizeAgain ==
    /\ Len(normalized) = 1
    /\ normalized' = Append(normalized, normalize_title(normalized[1]))
    /\ UNCHANGED <<sessionVars, src, built, data, title, snip>>

NextNorm == Normalize \/ NormalizeAgain

SpecNorm == InitNorm /\ [][NextNorm]_vars

(* ----------------------------- play_snippet alone ---------------------- *)

\* Times in milliseconds. The code adds 0.2 to a float until it reaches 5.0,
\* which takes 25 additions, as 200 added until 5000 does.
wait_seconds == 5000
poll_interval == 200
ProgressMin == 200
StopDelay == 150
FallbackDelay == 500
DefaultDuration == 5

MaxDuration == 1

\* int(data.get("duration", 0)); a value int() rejects reads as 0
DurationInputs == -1..MaxDuration

\* What sp.devices() answers
DeviceAnswers ==
    {[raises |-> TRUE, devices |-> <<>>],
     [raises |-> FALSE, devices |-> <<>>],
     [raises |-> FALSE, devices |-> <<[id |-> "d1", is_active |-> FALSE]>>],
     [raises |-> FALSE, devices |-> <<[id |-> "d1", is_active |-> FALSE],
                                      [id |-> "d2", is_active |-> TRUE]>>],
     [raises |-> FALSE, devices |-> <<[id |-> "d1", is_active |-> TRUE],
                                      [id |-> "d2", is_active |-> TRUE]>>]}

\* next((d for d in devices if d.get("is_active")), None)
ActiveDevice(devices) ==
    IF \E i \in DOMAIN devices : devices[i].is_active
    THEN devices[CHOOSE i \in DOMAIN devices :
                    devices[i].is_active /\ \A j \in 1..(i - 1) : ~devices[j].is_active]
    ELSE None

\* What sp.current_playback() answers when it does not raise
CurrentPlaybacks ==
    {None} \cup {[is_playing |-> p, progress_ms |-> g] :
                    p \in BOOLEAN, g \in {0, ProgressMin, ProgressMin + 1}}

\* state and state.get("is_playing") and (state.get("progress_ms", 0) > 200)
Started(state) ==
    state # None /\ state.is_playing /\ state.progress_ms > ProgressMin

\* A wait loop that gives up after its first poll
PollOnce(waited) == waited < poll_interval

\* while waited < wait_seconds
PollAgain(waited) == waited < wait_seconds

\* A loop body whose count of the time slept starts over before the limit
AfterPollWraps(waited) == (waited + poll_interval) % wait_seconds

\* waited += poll_interval
AfterPoll(waited) == waited + poll_interval

\* A call the handler issued on a device, or a sleep (device ""); arg is the
\* position, the time slept or the progress read, and ok is FALSE when the
\* call raised
Call(name, device, arg, ok) ==
    [call |-> name, device |-> device, arg |-> arg, ok |-> ok]

SnippetRequests ==
    {[pc |-> "request", full |-> f, duration |-> d, devices |-> a,
      device_id |-> "", waited |-> 0, started |-> FALSE, log |-> <<>>] :
        f \in BOOLEAN, d \in DurationInputs, a \in DeviceAnswers}

\* The except clause of line 337
SnippetError == Response("play_snippet", 500, [error |-> "exception"])

\* sp.devices() is called outside the try block: the framework answers 500
SnippetUnhandled == Response("play_snippet", 500, [error |-> "unhandled"])

InitSnippet ==
    /\ InitObserved
    /\ session \in {EmptySession, [EmptySession EXCEPT !.token_info = TRUE]}
    /\ src = AllRaise
    /\ built = None
    /\ data = NoData
    /\ NoTitle
    /\ snip \in SnippetRequests

\* Lines 278-293: the client, the request body and the active device
SnippetRequest ==
    /\ snip.pc = "request"
    /\ IF ~get_spotify(session)
       THEN /\ resp' = Response("play_snippet", 200, [needs_auth |-> TRUE])
            /\ snip' = [snip EXCEPT !.pc = "done"]
       ELSE IF snip.devices.raises
       THEN /\ resp' = SnippetUnhandled
            /\ snip' = [snip EXCEPT !.pc = "done"]
       ELSE IF ActiveDevice(snip.devices.devices) = None
       THEN /\ resp' = Response("play_snippet", 400, [error |-> "no-active-device"])
            /\ snip' = [snip EXCEPT !.pc = "done"]
       ELSE /\ resp' = resp
            /\ snip' = [snip EXCEPT
                          !.pc = "stop",
                          !.device_id = ActiveDevice(snip.devices.devices).id]
    /\ UNCHANGED <<session, tokenExpired, user_stats, reports, before, pool, returned,
                   inflight, src, built, data, title, normalized>>

\* Lines 297-303: best-effort pause of what is playing
SnippetStop ==
    /\ snip.pc = "stop"
    /\ \E ok \in BOOLEAN :
          snip' = [snip EXCEPT
                     !.pc = "start",
                     !.log = IF ok
                             THEN @ \o <<Call("pause_playback", snip.device_id, 0, TRUE),
                                         Call("sleep", "", StopDelay, TRUE)>>
                             ELSE Append(@, Call("pause_playback", snip.device_id, 0, FALSE))]
    /\ UNCHANGED <<sessionVars, src, built, data, title, normalized>>

\* Lines 306-310: start_playback at position 0, and the full-track return
SnippetStart ==
    /\ snip.pc = "start"
    /\ \E ok \in BOOLEAN :
          /\ snip' = [snip EXCEPT
                        !.pc = IF ok /\ ~snip.full THEN "poll" ELSE "done",
                        !.log = Append(@, Call("start_playback", snip.device_id, 0, ok))]
          /\ resp' = IF ~ok THEN SnippetError
                     ELSE IF snip.full
                     THEN Response("play_snippet", 200, [status |-> "playing_full"])
                     ELSE resp
    /\ UNCHANGED <<session, tokenExpired, user_stats, reports, before, pool, returned,
                   inflight, src, built, data, title, normalized>>

\* Lines 317-323: one turn of the wait loop, or its exit
SnippetPoll ==
    /\ snip.pc = "poll"
    /\ IF PollAgain(snip.waited)
       THEN \/ /\ resp' = SnippetError
               /\ snip' = [snip EXCEPT !.pc = "done"]
            \/ /\ resp' = resp
               /\ \E state \in CurrentPlaybacks :
                     snip' = IF Started(state)
                             THEN [snip EXCEPT
                                     !.pc = "finish",
                                     !.started = TRUE,
                                     !.log = Append(@, Call("current_playback", "",
                                                            state.progress_ms, TRUE))]
                             ELSE [snip EXCEPT !.waited = AfterPoll(@)]
       ELSE /\ resp' = resp
            /\ snip' = [snip EXCEPT !.pc = "finish"]
    /\ UNCHANGED <<session, tokenExpired, user_stats, reports, before, pool, returned,
                   inflight, src, built, data, title, normalized>>

\* Lines 326-336: the fallback sleep, the snippet sleep and the closing pause
SnippetFinish ==
    /\ snip.pc = "finish"
    /\ LET duration == IF snip.duration <= 0 THEN DefaultDuration ELSE snip.duration
           slept    == (IF snip.started THEN <<>>
                        ELSE <<Call("sleep", "", FallbackDelay, TRUE)>>)
                       \o <<Call("sleep", "", duration * 1000, TRUE)>>
       IN  \E ok \in BOOLEAN :
              /\ snip' = [snip EXCEPT
                            !.pc = "done",
                            !.log = @ \o slept
                                      \o <<Call("pause_playback", snip.device_id, 0, ok)>>]
              /\ resp' = IF ok
                         THEN Response("play_snippet", 200,
                                       [status |-> "played_snippet",
                                        duration |-> duration,
                                        started |-> snip.started])
                         ELSE SnippetError
    /\ UNCHANGED <<session, tokenExpired, user_stats, reports, before, pool, returned,
                   inflight, src, built, data, title, normalized>>

NextSnippet ==
    \/ SnippetRequest
    \/ SnippetStop
    \/ SnippetStart
    \/ SnippetPoll
    \/ SnippetFinish

SpecSnippet == InitSnippet /\ [][NextSnippet]_vars

\* The handler's thread keeps running: every call returns or raises and every
\* sleep ends
SpecSnippetLive == SpecSnippet /\ WF_vars(NextSnippet)

(* ------------------------------- stats alone --------------------------- *)

MaxStatReports == 3

\* A session without a token, one whose profile id could not be read, and
\* one of the user
StatSessions ==
    {EmptySession,
     [EmptySession EXCEPT !.token_info = TRUE],
     [EmptySession EXCEPT !.token_info = TRUE, !.spotify_user_id = "u1"]}

InitStats ==
    /\ InitObserved
    /\ session \in StatSessions
    /\ src = AllRaise
    /\ built = None
    /\ InitAlone

ReportAlone == Report(MaxStatReports)

NextStats == ReportAlone \/ SessionPlayedCount

SpecStats == InitStats /\ [][NextStats]_vars

(* -------------------------------- claims ------------------------------- *)

NoDuplicates(q) == \A i, j \in DOMAIN q : i # j => q[i] # q[j]

\* The title holds a letter A-Z or a-z
TitleHasLatinLetter(name) ==
    \E i \in DOMAIN name :
        name[i] \in Range(UpperChars) \cup Range(LowerChars)

IsSeed == resp.op = "seed_track"

IsExhaustion == resp.status = 404 /\ resp.json = [error |-> "no-more-tracks"]

IsPickedTrack == IsSeed /\ resp.status = 200 /\ "id" \in DOMAIN resp.json

UsedBefore == Range(before.session.played_tracks)

\* The pool tracks that are unused and content-eligible
EligibleBefore ==
    {t \in pool.tracks : t.id \notin UsedBefore /\ TitleHasLatinLetter(t.name)}

\* C1: within one session no track id is returned by two successful picks,
\* and a pick whose pool holds no eligible track that is still unused ends
\* with the exhaustion outcome (404 no-more-tracks).
C1_NoRepeat ==
    /\ NoDuplicates(returned)
    /\ (IsSeed /\ pool.built
        /\ \A t \in pool.tracks : TitleHasLatinLetter(t.name) => t.id \in UsedBefore)
       => IsExhaustion

\* Two picks were returned, and a third request found every eligible track
\* of a pool that has some already used
C1_Witness ==
    /\ IsSeed /\ pool.built /\ IsExhaustion
    /\ Len(returned) = 2
    /\ \E t \in pool.tracks : TitleHasLatinLetter(t.name)
    /\ \A t \in pool.tracks : TitleHasLatinLetter(t.name) => t.id \in UsedBefore

C3_PickEffect ==
    IsPickedTrack =>
        /\ \E t \in pool.tracks :
              /\ t.id = resp.json.id /\ t.name = resp.json.name
              /\ session.current_track.id = t.id
              /\ session.current_track.name = t.name
              /\ session.current_track.artists =
                    [i \in DOMAIN t.artists |-> t.artists[i].name]
              /\ session.current_track.match_title = normalize_title(t.name)
        /\ session.played_tracks =
              Append(before.session.played_tracks, resp.json.id)

\* A pick that replaced an earlier answer, of a track whose normalized title
\* differs from its lowercased title
C3_Witness ==
    /\ IsPickedTrack
    /\ before.session.current_track # None
    /\ before.session.played_tracks # <<>>
    /\ session.current_track.match_title # lower(session.current_track.name)
    /\ session.current_track.match_title # <<>>

IsPrefix(p, q) == Len(p) <= Len(q) /\ SubSeq(q, 1, Len(p)) = p

\* C4: a request other than logout leaves every played id in the played
\* list, and every id returned in this session is still in it.
C4_UsedIdsMonotone ==
    /\ resp.op # "logout" =>
          IsPrefix(before.session.played_tracks, session.played_tracks)
    /\ Range(returned) \subseteq Range(session.played_tracks)

\* A repeated login callback on a session that has played tracks
C4_Witness ==
    /\ resp.op = "callback" /\ resp.status = 302
    /\ before.session.token_info
    /\ Len(before.session.played_tracks) = 2
    /\ session.played_tracks = before.session.played_tracks

\* C5: overlapping seed-track requests of one session never return the same
\* track id, and once none is in flight the session's played list holds the
\* id of every pick.
C5_AtomicPick ==
    /\ NoDuplicates(returned)
    /\ (\A r \in Requests : inflight[r] = None)
          => Range(returned) \subseteq Range(session.played_tracks)

\* C6: a seed-track request whose catalogue calls are rejected for the
\* session's expired token ends with the needs-reauthentication outcome.
C6_RejectedTokenNeedsReauth ==
    (IsSeed /\ before.session.token_info /\ before.tokenExpired)
        => resp.json = [needs_auth |-> TRUE]

(* claims about the pool builder, under SpecPool *)

\* The tracks with an id among the items of a source, in order
TracksOfCurrent(cur) ==
    IF cur = Raises \/ cur = None THEN <<>>
    ELSE IF cur.item # None /\ cur.item.id # "" THEN <<cur.item>> ELSE <<>>

RECURSIVE TracksOfRecentItems(_)
TracksOfRecentItems(items) ==
    IF items = <<>> THEN <<>>
    ELSE (IF Head(items) # None /\ Head(items).track # None
             /\ Head(items).track.id # ""
          THEN <<Head(items).track>> ELSE <<>>)
         \o TracksOfRecentItems(Tail(items))

RECURSIVE TracksOfTopItems(_)
TracksOfTopItems(items) ==
    IF items = <<>> THEN <<>>
    ELSE (IF Head(items) # None /\ Head(items).id # ""
          THEN <<Head(items)>> ELSE <<>>)
         \o TracksOfTopItems(Tail(items))

\* A source fails when its call raises or reading its answer raises
CurrentFails == src.cur = Raises

RecentFails ==
    \/ src.recent = Raises
    \/ src.recent = None
    \/ \E i \in DOMAIN src.recent.items : src.recent.items[i] = None

TopFails == src.top = Raises \/ src.top = None

\* The tracks of the sources that do not fail, in source order
TracksOfSound ==
    (IF CurrentFails THEN <<>> ELSE TracksOfCurrent(src.cur))
    \o (IF RecentFails THEN <<>> ELSE TracksOfRecentItems(src.recent.items))
    \o (IF TopFails THEN <<>> ELSE TracksOfTopItems(src.top.items))

\* C7: whatever sources fail, the pool holds exactly the ids of the tracks
\* of the sources that do not fail: a failing source contributes nothing.
C7_FailingSourceContributesNothing ==
    built # None =>
        {t.id : t \in built.tracks} = {t.id : t \in Range(TracksOfSound)}

\* C8: the pool never holds two tracks of one id; when no source fails it
\* holds one member per distinct id of the three sources, and that member
\* is the first copy in the order currently playing, recently played, top.
C8_Dedup ==
    built # None =>
        /\ \A t, u \in built.tracks : t.id = u.id => t = u
        /\ ~(CurrentFails \/ RecentFails \/ TopFails) =>
              LET all == TracksOfSound
                  ids == {all[i].id : i \in DOMAIN all}
              IN  /\ Cardinality(built.tracks) = Cardinality(ids)
                  /\ \A d \in ids :
                        LET first == CHOOSE i \in DOMAIN all :
                                        /\ all[i].id = d
                                        /\ \A j \in 1..(i - 1) : all[j].id # d
                        IN  all[first] \in built.tracks

\* No source fails, two sources hold different copies of one id, and the
\* pool was built
C8_Witness ==
    /\ built # None
    /\ ~(CurrentFails \/ RecentFails \/ TopFails)
    /\ TrackA2 \in Range(TracksOfRecentItems(src.recent.items))
    /\ TrackA \in Range(TracksOfTopItems(src.top.items))
    /\ TrackB \in Range(TracksOfSound)
    /\ TrackA2 \in built.tracks

(* claims about the judge *)

IsVerdict == resp.op = "check_guess" /\ resp.status = 200

Blank(s) == \A i \in DOMAIN s : IsSpace(s[i])

\* C9: a verdict is never given for a guess or an answer title that is
\* empty after trimming (such a request gets the 400 validation error).
C9_MissingInputRejected ==
    IsVerdict => ~Blank(resp.json.guess) /\ ~Blank(resp.json.correct_title_raw)

\* C10: when a non-empty answer title normalizes to the empty string the
\* judge compares against the lowercased raw title, so a guess identical to
\* that title is accepted.
C10_FallbackOnEmptyNormalization ==
    (IsVerdict /\ ~Blank(resp.json.correct_title_raw)
     /\ normalize_title(resp.json.correct_title_raw) = <<>>
     /\ resp.json.guess = resp.json.correct_title_raw)
        => /\ resp.json.correct_normalized = lower(resp.json.correct_title_raw)
           /\ resp.json.accepted
\* The threshold the spec gives for a normalized answer
SpecThreshold(answer) == IF Len(answer) <= 4 THEN 88 ELSE 93

\* C11: a judged guess is accepted exactly when its score reaches 93 for a
\* normalized answer longer than 4 characters, and 88 for one of 4
\* characters or fewer.
C11_LengthSensitiveThreshold ==
    IsVerdict =>
        (resp.json.accepted <=>
            resp.json.ratio >= SpecThreshold(resp.json.correct_normalized))

\* A short answer judged at 88 and accepted: "abcd" against the guess
\* "abcde"
C11_Witness ==
    /\ IsVerdict
    /\ Len(resp.json.correct_normalized) = 4
    /\ resp.json.ratio = 88
    /\ resp.json.accepted

\* The other cases of the claim that strings can produce
C11_LongAccepted ==
    IsVerdict /\ Len(resp.json.correct_normalized) > 4
    /\ resp.json.ratio = 93 /\ resp.json.accepted

C11_LongRejected ==
    IsVerdict /\ Len(resp.json.correct_normalized) > 4
    /\ resp.json.ratio = 92 /\ ~resp.json.accepted

\* C12: every check_guess call, whatever its verdict or error, leaves the
\* played list and the current answer exactly as they were.
C12_JudgingLeavesRoundState ==
    resp.op = "check_guess" =>
        /\ session.played_tracks = before.session.played_tracks
        /\ session.current_track = before.session.current_track

\* An accepted guess judged against the answer of a successful pick
C12_Witness ==
    /\ IsVerdict
    /\ resp.json.accepted
    /\ before.session.current_track # None
    /\ session.current_track = before.session.current_track
    /\ Len(session.played_tracks) > 0

\* Step 3 as stated: the first feat/ft/featuring marker and everything after
\* it to the end of the string, replaced by a space
CutAtFeat(s) ==
    LET at(i) == FeatMarkerAt(s, i) > 0
    IN  IF \E i \in DOMAIN s : at(i)
        THEN LET i == CHOOSE k \in DOMAIN s : at(k) /\ \A m \in 1..(k - 1) : ~at(m)
             IN  Upto(s, i - 1) \o <<" ">>
        ELSE s

\* The stated composition of the six steps
StatedComposition(t) ==
    LET s1 == lower(t)
        s2 == RemoveSpans(RemoveSpans(RemoveSpans(s1, "(", ")"), "[", "]"), "{", "}")
        s3 == CutAtFeat(s2)
        s4 == FirstSegment(s3)
        s5 == RemovePunct(s4)
    IN  strip(CollapseSpaces(s5))

\* C13: normalize_title equals the composition, in order, of lowercasing,
\* replacing bracketed spans by a space, removing a feat marker and everything
\* after it to the end of the string, keeping the segment before the first
\* dash separator, replacing punctuation by spaces, collapsing and trimming.
C13_NormalizeIsStatedComposition ==
    Len(normalized) >= 1 => normalized[1] = StatedComposition(title)

\* The three stated examples
C13_Examples ==
    Len(normalized) >= 1 =>
        /\ title = BlindingLightsRaw =>
              normalized[1] = <<"b","l","i","n","d","i","n","g"," ",
                                "l","i","g","h","t","s">>
        /\ title = SongLiveRaw => normalized[1] = <<"s","o","n","g">>
        /\ title = HelloWorldRaw =>
              normalized[1] = <<"h","e","l","l","o"," ","w","o","r","l","d">>

\* A letter or a digit (str.isalnum)
IsAlnum(c) == IsLatin(c) \/ IsDigit(c) \/ c = "cyr"

\* C14: the output of normalize_title holds only alphanumeric characters and
\* single spaces, with no leading or trailing space and no two consecutive
\* whitespace characters; the empty input gives the empty output.
C14_NormalizedShape ==
    Len(normalized) >= 1 =>
        LET s == normalized[1]
        IN  /\ \A i \in DOMAIN s : IsAlnum(s[i]) \/ s[i] = " "
            /\ s # <<>> => ~IsSpace(s[1]) /\ ~IsSpace(s[Len(s)])
            /\ \A i \in 1..(Len(s) - 1) : ~(IsSpace(s[i]) /\ IsSpace(s[i + 1]))
            /\ title = <<>> => s = <<>>

\* C15: normalize_title(normalize_title(x)) = normalize_title(x) for every
\* string x.
C15_Idempotent ==
    Len(normalized) = 2 => normalized[2] = normalized[1]

\* The closing pause: a pause_playback issued after start_playback
IsClosingPause(j) ==
    /\ snip.log[j].call = "pause_playback"
    /\ \E i \in 1..(j - 1) : snip.log[i].call = "start_playback"

\* Before log[j]: start_playback at position 0 on the active device, which
\* returned, and later the sleep of the snippet's duration, just before log[j]
StartedThenSlept(j) ==
    /\ \E i \in 1..(j - 2) :
          /\ snip.log[i] = Call("start_playback", snip.log[j].device, 0, TRUE)
          /\ snip.log[i].device = ActiveDevice(snip.devices.devices).id
    /\ snip.log[j - 1].call = "sleep"
    /\ snip.log[j - 1].arg =
          1000 * (IF snip.duration <= 0 THEN DefaultDuration ELSE snip.duration)

\* Between start_playback and log[j] a poll saw playback going, past 200 ms
ObservedStartedBefore(j) ==
    \E i \in 1..(j - 1), k \in 1..(j - 1) :
       /\ i < k
       /\ snip.log[i].call = "start_playback"
       /\ snip.log[k].call = "current_playback"
       /\ snip.log[k].arg > ProgressMin

C17_SnippetTerminates ==
    /\ <>(snip.pc = "done" /\ resp.op = "play_snippet")
    /\ [](snip.pc # "none" => snip.waited <= wait_seconds)

\* The loop left after 25 polls that never saw playback started, and the
\* request answered
C17_Witness ==
    /\ snip.pc = "done"
    /\ resp.op = "play_snippet"
    /\ ~snip.started
    /\ snip.waited = 25 * poll_interval

\* C18: whenever the session holds a current track, its id is in the
\* played list.
C18_CurrentAnswerIsUsed ==
    session.current_track # None =>
        session.current_track.id \in Range(session.played_tracks)

\* A pick that found nothing left, on a session that still holds the answer
\* of an earlier pick
C18_Witness ==
    /\ IsSeed /\ IsExhaustion
    /\ session.current_track # None
    /\ session.current_track.id \in Range(session.played_tracks)

IsFailedPick ==
    /\ IsSeed
    /\ \/ resp.json = [needs_auth |-> TRUE]
       \/ resp.status \in {404, 500}

\* C19: a seed_track request that ends with needs_auth, 404 or 500 leaves
\* the played list and the current track exactly as before the request.
C19_FailedPickChangesNothing ==
    IsFailedPick =>
        /\ session.played_tracks = before.session.played_tracks
        /\ session.current_track = before.session.current_track

\* A pick that failed with 500 on a session holding an earlier answer
C19_Witness ==
    /\ IsSeed /\ resp.status = 500
    /\ before.session.current_track # None
    /\ session = before.session

RECURSIVE CorrectIn(_)
CorrectIn(rs) ==
    IF rs = <<>> THEN 0
    ELSE (IF Head(rs).accepted THEN 1 ELSE 0) + CorrectIn(Tail(rs))

RECURSIVE AttemptsIn(_)
AttemptsIn(rs) ==
    IF rs = <<>> THEN 0
    ELSE (IF Head(rs).accepted THEN Head(rs).attempts ELSE 0) + AttemptsIn(Tail(rs))

HasStats == resp.status = 200 /\ "user_stats" \in DOMAIN resp.json
            /\ resp.json.user_stats # None

\* C20: songs_played is the number of reports counted, correct_songs the
\* number of accepted ones and total_attempts_for_correct the sum of their
\* attempts, so correct_songs <= songs_played; averageAttempts is null in a
\* response exactly when correct_songs is 0.
C20_StatsCounters ==
    /\ user_stats = None => reports = <<>>
    /\ user_stats # None =>
          /\ user_stats.songs_played = Len(reports)
          /\ user_stats.correct_songs = CorrectIn(reports)
          /\ user_stats.total_attempts_for_correct = AttemptsIn(reports)
          /\ user_stats.correct_songs <= user_stats.songs_played
    /\ HasStats =>
          /\ resp.json.user_stats.averageAttempts = None
                <=> resp.json.user_stats.correctSongs = 0
          /\ resp.json.user_stats.correctSongs = user_stats.correct_songs
          /\ resp.json.user_stats.songsPlayed = user_stats.songs_played

\* Three reports, the middle one accepted, and the answer to the last
C20_Witness ==
    /\ resp.op = "report_result" /\ HasStats
    /\ Len(reports) = 3
    /\ reports[2].accepted /\ ~reports[1].accepted /\ ~reports[3].accepted
    /\ user_stats.songs_played = 3
    /\ user_stats.correct_songs = 1
    /\ resp.json.user_stats.averageAttempts # None

====
